---- MODULE Spec2Model ----
(***************************************************************************)
(* Model of BlobTriggerFunction/__init__.py: the blob-triggered handler    *)
(* main(inputBlob) that records one audit row per uploaded blob in the SQL *)
(* table BlobAudit.                                                        *)
(*                                                                         *)
(* Strings that the code inspects character by character (blob names) are  *)
(* sequences of one-character strings; all other strings are TLA+ strings. *)
(*                                                                         *)
(* The SQL store is the environment of main.  It is modelled by what the   *)
(* statements of the source ask of it: a catalog that holds the table      *)
(* BlobAudit or not, the committed rows of that table, the IDENTITY        *)
(* counter of column Id, and for every connection the uncommitted work of  *)
(* its open transaction (pyodbc connections are opened with autocommit     *)
(* off, so every statement runs in a transaction that cn.commit() ends).   *)
(* A reader sees the committed state and its own uncommitted work, and     *)
(* does not wait for the uncommitted work of others (row versioning); the  *)
(* runs of a store whose readers wait are the runs in which readPast stays *)
(* FALSE.  Every call into pyodbc may raise pyodbc.Error, at most          *)
(* MaxFaults times a run.                                                  *)
(***************************************************************************)
EXTENDS Integers, Sequences, FiniteSets, TLC

\* ------------------------------------------------------------------ bounds

\* number of invocations of main the host dispatches (possibly concurrently)
NInv == 2
\* number of pyodbc calls that raise, over all invocations
MaxFaults == 2
\* longest stem put in front of a suffix to build a classifier input
MaxStem == 3

Invs == 1..NInv

\* ------------------------------------------------------------- classifier

UpperLetters ==
  <<"A","B","C","D","E","F","G","H","I","J","K","L","M",
    "N","O","P","Q","R","S","T","U","V","W","X","Y","Z">>

LowerLetters ==
  <<"a","b","c","d","e","f","g","h","i","j","k","l","m",
    "n","o","p","q","r","s","t","u","v","w","x","y","z">>

\* str.lower() on one character
LowerChar(c) ==
  IF \E k \in 1..Len(UpperLetters) : UpperLetters[k] = c
  THEN LowerLetters[CHOOSE k \in 1..Len(UpperLetters) : UpperLetters[k] = c]
  ELSE c

\* str.lower()
Lower(s) == [k \in 1..Len(s) |-> LowerChar(s[k])]

SetMax(S) == CHOOSE m \in S : \A x \in S : x <= m

\* str.rfind(c), 1-based; 0 when c does not occur (Python's -1)
RFind(p, c) ==
  LET S == {k \in 1..Len(p) : p[k] = c}
  IN IF S = {} THEN 0 ELSE SetMax(S)

\* the extension os.path.splitext would return if the dot at index d counted
\* whatever stands before it
SuffixFrom(p, d) == IF d = 0 THEN <<>> ELSE SubSeq(p, d, Len(p))

\* the "skip all leading dots" loop of os.path.splitext: the extension starts
\* at dotIndex only if some character of the last path component before
\* dotIndex is not a dot
RECURSIVE SkipLeadingDots(_, _, _)
SkipLeadingDots(p, filenameIndex, dotIndex) ==
  IF filenameIndex < dotIndex
  THEN IF p[filenameIndex] # "."
       THEN SuffixFrom(p, dotIndex)
       ELSE SkipLeadingDots(p, filenameIndex + 1, dotIndex)
  ELSE <<>>

\* a splitext that takes everything from the final dot (no separator test, no
\* leading-dot rule)
SplitextFinalDot(p) == SuffixFrom(p, RFind(p, "."))

\* os.path.splitext(p)[1] with sep = "/", extsep = "." (posixpath)
SplitextExt(p) ==
  LET sepIndex == RFind(p, "/")
      dotIndex == RFind(p, ".")
  IN IF dotIndex > sepIndex
     THEN SkipLeadingDots(p, sepIndex + 1, dotIndex)
     ELSE <<>>

\* the if/elif chain on file_extension
ContentTypeOf(file_extension) ==
  IF file_extension = <<".","t","x","t">> THEN "text/plain"
  ELSE IF file_extension = <<".","e","d","i">> THEN "application/edi"
  ELSE IF file_extension = <<".","x","m","l">> THEN "application/xml"
  ELSE IF file_extension = <<".","j","s","o","n">> THEN "application/json"
  ELSE "text/plain"

\* lines 45-54: content_type from inputBlob.name
Classify(name) == ContentTypeOf(Lower(SplitextExt(name)))

\* ------------------------------------------------- classifier input space

StemChars == {"a", ".", "/"}

RECURSIVE SeqsUpTo(_, _)
SeqsUpTo(S, n) ==
  IF n = 0 THEN {<<>>}
  ELSE LET shorter == SeqsUpTo(S, n - 1)
       IN shorter \cup {Append(s, c) : s \in shorter, c \in S}

Suffixes ==
  { <<>>,
    <<".">>,
    <<"e","d","i">>,
    <<".","t","x","t">>,
    <<".","T","X","T">>,
    <<".","e","d","i">>,
    <<".","E","D","I">>,
    <<".","E","d","i">>,
    <<".","x","m","l">>,
    <<".","j","s","o","n">>,
    <<".","J","S","O","N">>,
    <<".","c","s","v">>,
    <<".","e","d","i",".">>,
    <<".","e","d","i","/","a">>,
    <<".","x","m","l","a">> }

Names == {stem \o suffix : stem \in SeqsUpTo(StemChars, MaxStem), suffix \in Suffixes}

\* ------------------------------------------------------------------ state

VARIABLES
  environ,      \* os.environ restricted to the key SQLConnectionString
  inputBlob,    \* inputBlob[i]: the BlobEvent invocation i is called with
  pc,           \* pc[i]: the statement invocation i executes next
  cn,           \* cn[i]: local cn: "unbound", or the state of its connection
  cur,          \* cur[i]: local cur: "unbound", or the state of its cursor
  content_type, \* content_type[i]: local content_type ("" before line 46)
  total_count,  \* total_count[i]: local total_count (-1 before line 67)
  pending,      \* pending[i]: the step whose exception is in flight, or "none"
  result,       \* result[i]: "running", "ok", or the step whose exception
                \* main raised to the host
  tableExists,  \* store: the committed catalog holds the table BlobAudit
  rows,         \* store: the committed rows of BlobAudit
  identity,     \* store: the next value of the IDENTITY column Id
  txCreate,     \* store: txCreate[i]: connection i created the table in its
                \* open transaction
  txRows,       \* store: txRows[i]: rows connection i inserted in its open
                \* transaction
  faults,       \* number of pyodbc calls that raised so far
  calls,        \* history: calls[i]: the pyodbc calls invocation i issued
  inserted,     \* history: inserted[i]: the Id values invocation i's INSERT got
  lastCount,    \* history: the invocation whose SELECT COUNT(*) ran last (0: none)
  lastDone,     \* history: the invocation that returned or raised last (0: none)
  readPast,     \* history: some statement read the catalog or the table while
                \* another connection had uncommitted work on it
  arg,          \* classifier run: the name passed in
  ret           \* classifier run: the content type returned ("none" before)

localVars == <<cn, cur, content_type, total_count>>
storeVars == <<tableExists, rows, identity, txCreate, txRows>>
histVars  == <<inserted, lastCount, readPast>>
classVars == <<arg, ret>>
vars == <<environ, inputBlob, pc, cn, cur, content_type, total_count, pending,
          result, tableExists, rows, identity, txCreate, txRows, faults, calls,
          inserted, lastCount, lastDone, readPast, arg, ret>>

\* ------------------------------------------------------------ environment

EnvKey == "SQLConnectionString"

\* the process environment: key unset, set to "", or set to a connection string
Environs ==
  { [k \in {} |-> ""],
    [k \in {EnvKey} |-> ""],
    [k \in {EnvKey} |-> "Server=tcp:audit;Database=edi"] }

\* os.environ.get(key): <<v>> for a value v, <<>> for None
EnvironGet(env, key) == IF key \in DOMAIN env THEN <<env[key]>> ELSE <<>>

\* a test that only asks for None
TruthyNotNone(opt) == opt # <<>>

\* Python truthiness of an optional string: None and "" are false
Truthy(opt) == opt # <<>> /\ opt # <<"">>

\* the BlobEvents the host dispatches
Events ==
  << [name |-> <<"a",".","E","D","I">>, length |-> 4096],
     [name |-> <<".","e","d","i">>, length |-> 0] >>

\* the events of a run: consecutive invocations get different events (the
\* invocations are alike but for their event, so which one gets which does
\* not matter)
Dispatches == { [i \in Invs |-> Events[((i - 1) % Len(Events)) + 1]] }

\* NVARCHAR(500) of column BlobName
BlobNameMax == 500

\* Status DEFAULT 'Processed' is also the value the INSERT passes
StatusProcessed == "Processed"

\* a row whose Status is left to a wrong literal
NewRowPending(id, blob, ctype) ==
  [Id |-> id, BlobName |-> blob.name, BlobSize |-> blob.length,
   ContentType |-> ctype, Status |-> "Pending"]

\* the row INSERT INTO BlobAudit (BlobName, BlobSize, ContentType, Status)
\* VALUES (?, ?, ?, ?) stores, with the Id the IDENTITY column gives it
NewRow(id, blob, ctype) ==
  [Id |-> id, BlobName |-> blob.name, BlobSize |-> blob.length,
   ContentType |-> ctype, Status |-> StatusProcessed]

\* what a statement on connection i reads: committed state and its own work
TableVisible(i) == tableExists \/ txCreate[i]
RowsVisible(i) == rows \cup txRows[i]

\* a pyodbc call may raise while the budget of faults lasts
CanFault == faults < MaxFaults

\* the state before the host dispatches anything: env is the process
\* environment, blobs the events of the invocations, names the classifier's
\* inputs; the store is empty
InitWith(envs, blobs, names) ==
  /\ environ \in envs
  /\ inputBlob \in blobs
  /\ pc = [i \in Invs |-> "start"]
  /\ cn = [i \in Invs |-> "unbound"]
  /\ cur = [i \in Invs |-> "unbound"]
  /\ content_type = [i \in Invs |-> ""]
  /\ total_count = [i \in Invs |-> -1]
  /\ pending = [i \in Invs |-> "none"]
  /\ result = [i \in Invs |-> "running"]
  /\ tableExists = FALSE
  /\ rows = {}
  /\ identity = 1
  /\ txCreate = [i \in Invs |-> FALSE]
  /\ txRows = [i \in Invs |-> {}]
  /\ faults = 0
  /\ calls = [i \in Invs |-> <<>>]
  /\ inserted = [i \in Invs |-> {}]
  /\ lastCount = 0
  /\ lastDone = 0
  /\ readPast = FALSE
  /\ arg \in names
  /\ ret = "none"

Init == InitWith(Environs, Dispatches, {<<>>})

\* ---------------------------------------------------------------- helpers

\* the calls are recorded in the history of invocation i
Called(i, what) == calls' = [calls EXCEPT ![i] = @ \o what]

\* an except clause that swallows the exception instead of re-raising it
RaiseSwallowed(i, step) ==
  /\ pending' = pending
  /\ pc' = [pc EXCEPT ![i] = "finally"]

\* lines 76-83: an exception raised by `step` inside the try block is logged by
\* the matching except clause and re-raised; control passes to the finally block
Raise(i, step) ==
  /\ pending' = [pending EXCEPT ![i] = step]
  /\ pc' = [pc EXCEPT ![i] = "finally"]

\* the try block goes on with the next statement
Goto(i, next) ==
  /\ pc' = [pc EXCEPT ![i] = next]
  /\ pending' = pending

\* lines 84-92, leaving the finally block: an exception of the cleanup, if
\* any, was swallowed by except: pass; the exception in flight, if any, goes
\* on to the host, otherwise main returns
Leave(i) ==
  /\ pc' = [pc EXCEPT ![i] = "done"]
  /\ result' = [result EXCEPT ![i] =
                  IF pending[i] = "none" THEN "ok" ELSE pending[i]]
  /\ lastDone' = i
  /\ pending' = pending

\* cn.close() on an open connection: the open transaction is rolled back
Rollback(i) ==
  /\ txCreate' = [txCreate EXCEPT ![i] = FALSE]
  /\ txRows' = [txRows EXCEPT ![i] = {}]

\* what close() on a handle can do: an open handle is closed, or the call
\* raises like any call; closing a handle that was closed before raises or does
\* nothing, whichever the driver chooses; an unbound name is skipped
CloseOutcomes(handle) ==
  IF handle = "unbound" THEN {"skip"} ELSE {"ok", "raise"}

\* ---------------------------------------------------------------- actions

\* lines 8-26: log the blob, read its content, conn_str = os.environ.get(...),
\* if not conn_str: raise ValueError; cn = pyodbc.connect(conn_str,
\* timeout=30); cur = cn.cursor().  Nothing here touches the store's data
Open(i) ==
  /\ pc[i] = "start"
  /\ IF Truthy(EnvironGet(environ, EnvKey))
     THEN \/ /\ Called(i, <<"connect", "cursor">>)
             /\ cn' = [cn EXCEPT ![i] = "open"]
             /\ cur' = [cur EXCEPT ![i] = "open"]
             /\ Goto(i, "ensure")
             /\ UNCHANGED faults
          \/ /\ CanFault
             /\ Called(i, <<"connect">>)
             /\ faults' = faults + 1
             /\ Raise(i, "connect")
             /\ UNCHANGED <<cn, cur>>
          \/ /\ CanFault
             /\ Called(i, <<"connect", "cursor">>)
             /\ cn' = [cn EXCEPT ![i] = "open"]
             /\ faults' = faults + 1
             /\ Raise(i, "cursor")
             /\ UNCHANGED cur
     ELSE /\ Raise(i, "config")
          /\ UNCHANGED <<cn, cur, calls, faults>>
  /\ UNCHANGED <<environ, inputBlob, content_type, total_count, result,
                 storeVars, histVars, lastDone, classVars>>

\* a batch that issues CREATE TABLE without looking at the catalog
NotExistsUnchecked(i) == TRUE

\* line 30: IF NOT EXISTS (SELECT * FROM sysobjects WHERE name='BlobAudit' ...)
NotExists(i) == ~TableVisible(i)

\* line 40, first statement of the batch: cur.execute(create_table_sql) reaches
\* the store and the store evaluates the IF NOT EXISTS test
EnsureCheck(i) ==
  /\ pc[i] = "ensure"
  /\ Called(i, <<"execute_ensure">>)
  /\ \/ /\ IF NotExists(i) THEN Goto(i, "create") ELSE Goto(i, "ensure_commit")
        /\ readPast' = (readPast \/ \E j \in Invs \ {i} : txCreate[j])
        /\ UNCHANGED faults
     \/ /\ CanFault
        /\ faults' = faults + 1
        /\ Raise(i, "ensure")
        /\ UNCHANGED readPast
  /\ UNCHANGED <<environ, inputBlob, localVars, result, storeVars, inserted,
                 lastCount, lastDone, classVars>>

\* lines 31-38, second statement of the batch: CREATE TABLE BlobAudit.  It
\* waits while another transaction holds an uncommitted BlobAudit, and fails
\* ("There is already an object named 'BlobAudit'") when the table has been
\* committed since the test
EnsureCreate(i) ==
  /\ pc[i] = "create"
  /\ \A j \in Invs \ {i} : ~txCreate[j]
  /\ IF TableVisible(i)
     THEN /\ Raise(i, "create")
          /\ UNCHANGED txCreate
     ELSE /\ txCreate' = [txCreate EXCEPT ![i] = TRUE]
          /\ Goto(i, "ensure_commit")
  /\ UNCHANGED <<environ, inputBlob, localVars, result, tableExists, rows,
                 identity, txRows, faults, calls, histVars, lastDone,
                 classVars>>

\* cn.commit(): the work of connection i's transaction becomes committed
\* state; a commit that raises has published nothing
Commit(i) ==
  /\ tableExists' = (tableExists \/ txCreate[i])
  /\ rows' = rows \cup txRows[i]
  /\ Rollback(i)

\* line 41: cn.commit() after the ensure batch
EnsureCommit(i) ==
  /\ pc[i] = "ensure_commit"
  /\ Called(i, <<"commit_ensure">>)
  /\ \/ /\ Commit(i)
        /\ Goto(i, "insert")
        /\ UNCHANGED faults
     \/ /\ CanFault
        /\ faults' = faults + 1
        /\ Raise(i, "ensure_commit")
        /\ UNCHANGED <<tableExists, rows, txCreate, txRows>>
  /\ UNCHANGED <<environ, inputBlob, localVars, result, identity, histVars,
                 lastDone, classVars>>

\* an IDENTITY column that hands out the same value again
IdentityStuck(id) == id

\* Id INT IDENTITY: seed 1, increment 1
IdentityNext(id) == id + 1

\* a connection in autocommit mode: the row is committed by the INSERT itself
InsertRowAutocommit(i, row) ==
  /\ rows' = rows \cup {row}
  /\ txRows' = txRows

\* the store's part of the INSERT on connection i (opened at line 24 without
\* autocommit): the row joins the uncommitted work of the transaction
InsertRow(i, row) ==
  /\ txRows' = [txRows EXCEPT ![i] = @ \cup {row}]
  /\ rows' = rows

\* lines 45-61: file_extension, content_type, then
\* cur.execute(insert_sql, (name, length, content_type, 'Processed')).
\* The statement fails in the store when the table is not there or the name
\* does not fit NVARCHAR(500)
Insert(i) ==
  /\ pc[i] = "insert"
  /\ content_type' = [content_type EXCEPT ![i] = Classify(inputBlob[i].name)]
  /\ Called(i, <<"execute_insert">>)
  /\ \/ /\ IF TableVisible(i) /\ Len(inputBlob[i].name) <= BlobNameMax
           THEN /\ InsertRow(i, NewRow(identity, inputBlob[i], content_type'[i]))
                /\ identity' = IdentityNext(identity)
                /\ inserted' = [inserted EXCEPT ![i] = @ \cup {identity}]
                /\ Goto(i, "insert_commit")
           ELSE /\ Raise(i, "insert")
                /\ UNCHANGED <<txRows, rows, identity, inserted>>
        /\ UNCHANGED faults
     \/ /\ CanFault
        /\ faults' = faults + 1
        /\ Raise(i, "insert")
        /\ UNCHANGED <<txRows, rows, identity, inserted>>
  /\ UNCHANGED <<environ, inputBlob, cn, cur, total_count, result, tableExists,
                 txCreate, lastCount, lastDone, readPast, classVars>>

\* line 62: cn.commit() after the INSERT
InsertCommit(i) ==
  /\ pc[i] = "insert_commit"
  /\ Called(i, <<"commit_insert">>)
  /\ \/ /\ Commit(i)
        /\ Goto(i, "count")
        /\ UNCHANGED faults
     \/ /\ CanFault
        /\ faults' = faults + 1
        /\ Raise(i, "insert_commit")
        /\ UNCHANGED <<tableExists, rows, txCreate, txRows>>
  /\ UNCHANGED <<environ, inputBlob, localVars, result, identity, histVars,
                 lastDone, classVars>>

\* lines 65-74: cur.execute("SELECT COUNT(*) FROM BlobAudit"); fetchone()[0];
\* then cur.close(); cn.close() at the end of the try block.  The two close
\* calls touch nothing but the invocation's own handles: the transaction of
\* the connection is empty since the commit of line 62
CountAndClose(i) ==
  /\ pc[i] = "count"
  /\ \/ /\ CanFault
        /\ Called(i, <<"execute_count">>)
        /\ faults' = faults + 1
        /\ Raise(i, "count")
        /\ UNCHANGED <<total_count, lastCount, readPast, cur, cn>>
     \/ /\ total_count' = [total_count EXCEPT ![i] = Cardinality(RowsVisible(i))]
        /\ lastCount' = i
        /\ readPast' = (readPast \/ \E j \in Invs \ {i} : txRows[j] # {})
        /\ \/ /\ Called(i, <<"execute_count", "cur.close", "cn.close">>)
              /\ cur' = [cur EXCEPT ![i] = "closed"]
              /\ cn' = [cn EXCEPT ![i] = "closed"]
              /\ Goto(i, "finally")
              /\ UNCHANGED faults
           \/ /\ CanFault
              /\ Called(i, <<"execute_count", "cur.close">>)
              /\ faults' = faults + 1
              /\ Raise(i, "close_cur")
              /\ UNCHANGED <<cur, cn>>
           \/ /\ CanFault
              /\ Called(i, <<"execute_count", "cur.close", "cn.close">>)
              /\ cur' = [cur EXCEPT ![i] = "closed"]
              /\ faults' = faults + 1
              /\ Raise(i, "close_cn")
              /\ UNCHANGED cn
  /\ UNCHANGED <<environ, inputBlob, content_type, result, storeVars, inserted,
                 lastDone, classVars>>

\* lines 84-92: the finally block.  if 'cur' in locals() and cur: cur.close();
\* if 'cn' in locals() and cn: cn.close(); both inside one try whose
\* except: pass ends the block at the first call that raises, so that
\* cn.close() is not reached when cur.close() raises
Finally(i) ==
  /\ pc[i] = "finally"
  /\ \E curOut \in CloseOutcomes(cur[i]) :
     \E cnOut \in (IF curOut = "raise" THEN {"skip"} ELSE CloseOutcomes(cn[i])) :
       LET curFault == curOut = "raise" /\ cur[i] = "open"
           cnFault == cnOut = "raise" /\ cn[i] = "open"
       IN /\ (curFault \/ cnFault) => CanFault
          /\ faults' = IF curFault \/ cnFault THEN faults + 1 ELSE faults
          /\ Called(i, (IF curOut = "skip" THEN <<>> ELSE <<"cur.close">>)
                       \o (IF cnOut = "skip" THEN <<>> ELSE <<"cn.close">>))
          /\ cur' = [cur EXCEPT ![i] = IF curOut = "ok" THEN "closed" ELSE @]
          /\ cn' = [cn EXCEPT ![i] = IF cnOut = "ok" THEN "closed" ELSE @]
          /\ IF cnOut = "ok" THEN Rollback(i) ELSE UNCHANGED <<txCreate, txRows>>
          /\ Leave(i)
  /\ UNCHANGED <<environ, inputBlob, content_type, total_count, tableExists,
                 rows, identity, inserted, lastCount, readPast, classVars>>

\* one statement of invocation i
Step(i) ==
  \/ Open(i)
  \/ EnsureCheck(i)
  \/ EnsureCreate(i)
  \/ EnsureCommit(i)
  \/ Insert(i)
  \/ InsertCommit(i)
  \/ CountAndClose(i)
  \/ Finally(i)

\* the host dispatches the invocations concurrently: any of them takes a step
Next == \E i \in Invs : Step(i)

Spec == Init /\ [][Next]_vars

\* the host dispatches the invocations one after another
NextSeq == \E i \in Invs : (\A j \in Invs : j < i => pc[j] = "done") /\ Step(i)

SpecSeq == Init /\ [][NextSeq]_vars

\* ------------------------------------------------------ classifier alone

\* no invocation is dispatched; the classifier is handed any of Names
InitClassify ==
  InitWith({[k \in {} |-> ""]}, {[i \in Invs |-> [name |-> <<>>, length |-> 0]]},
           Names)

\* lines 45-54 applied to arg
ClassifyCall ==
  /\ ret = "none"
  /\ ret' = Classify(arg)
  /\ arg' = arg
  /\ UNCHANGED <<environ, inputBlob, pc, localVars, pending, result, storeVars,
                 faults, calls, histVars, lastDone>>

NextClassify == ClassifyCall

SpecClassify == InitClassify /\ [][NextClassify]_vars

\* ====================================================================
\* Properties
\* ====================================================================

Range(s) == {s[k] : k \in 1..Len(s)}

CountOf(s, x) == Cardinality({k \in 1..Len(s) : s[k] = x})

IsRelease(c) == c \in {"cur.close", "cn.close"}
IsNotRelease(c) == ~IsRelease(c)

ContentTypes ==
  {"text/plain", "application/edi", "application/xml", "application/json"}

\* the lookup table of the specification, by extension
TypeTable(ext) ==
  CASE ext = <<".","t","x","t">> -> "text/plain"
    [] ext = <<".","e","d","i">> -> "application/edi"
    [] ext = <<".","x","m","l">> -> "application/xml"
    [] ext = <<".","j","s","o","n">> -> "application/json"
    [] OTHER -> "text/plain"

\* the lowercased substring starting at the final '.', empty without a '.'
FinalDotExtension(name) ==
  IF \E d \in 1..Len(name) : name[d] = "."
  THEN LET d == CHOOSE e \in 1..Len(name) :
                  name[e] = "." /\ \A k \in (e+1)..Len(name) : name[k] # "."
       IN Lower(SubSeq(name, d, Len(name)))
  ELSE <<>>

\* a '.' at d starts the extension when no '.' and no '/' follows it and the
\* path component it stands in has a character other than '.' before it
StartsExtension(name, d) ==
  /\ name[d] = "."
  /\ \A k \in (d+1)..Len(name) : name[k] \notin {".", "/"}
  /\ \E k \in 1..(d-1) : name[k] # "." /\ \A m \in k..d : name[m] # "/"

ComponentExtension(name) ==
  IF \E d \in 1..Len(name) : StartsExtension(name, d)
  THEN Lower(SubSeq(name, CHOOSE d \in 1..Len(name) : StartsExtension(name, d),
                    Len(name)))
  ELSE <<>>

\* C2 as stated: for every name the classification is the table's entry for
\* the lowercased substring starting at the final '.' of the name (empty
\* without a '.'), also for names whose only '.' is the first character.
C2_FinalDotClassification ==
  ret # "none" => ret = TypeTable(FinalDotExtension(arg))

\* C2 amended: the classification is total, and it is the table's entry for
\* the lowercased substring starting at the final '.' only when that '.' lies
\* in the last '/'-separated component of the name and is preceded there by a
\* character other than '.'; in every other case (no '.', a '.' only before
\* the last '/', a component made of leading dots such as ".edi") the
\* extension is empty and the result is text/plain.
C2_ComponentClassification ==
  ret # "none" =>
    /\ ret \in ContentTypes
    /\ ret = TypeTable(ComponentExtension(arg))

\* C2 witness: the name ".edi" has been classified, as text/plain
C2_Witness == arg = <<".","e","d","i">> /\ ret = "text/plain"

\* the rows of the committed table that invocation i's INSERT produced
RowsOf(i) == {r \in rows : r.Id \in inserted[i]}

\* the row the specification expects of the event of invocation i
IsAuditRowOf(r, i) ==
  /\ r.BlobName = inputBlob[i].name
  /\ r.BlobSize = inputBlob[i].length
  /\ r.Status = "Processed"
  /\ r.ContentType = TypeTable(ComponentExtension(inputBlob[i].name))

C1_Returned ==
  \A i \in Invs : result[i] = "ok" =>
    /\ Cardinality(RowsOf(i)) = 1
    /\ \A r \in RowsOf(i) : IsAuditRowOf(r, i)

C1_RowsStep ==
  /\ rows \subseteq rows'
  /\ rows' # rows =>
       \E i \in Invs :
         /\ pc[i] = "insert_commit" /\ pc'[i] = "count"
         /\ \E r \in rows' : rows' = rows \cup {r} /\ IsAuditRowOf(r, i)
         /\ \A j \in Invs \ {i} : pc'[j] = pc[j]

\* C1: an invocation with a configured connection string in which no step of
\* the try block faults adds exactly one row to BlobAudit, with BlobName =
\* event.name, BlobSize = event.length, Status = "Processed" and ContentType =
\* classify(event.name); the committed rows change only by that one row
\* being added, in the invocation's commit of its INSERT, and every row that
\* existed before stays as it was.
C1_ExactlyOneRow == [](C1_Returned) /\ [][C1_RowsStep]_vars

\* C1 witness: an invocation has returned normally, its row for the event
\* "a.EDI" of 4096 bytes is in the table next to the row of an earlier one
C1_Witness ==
  \E i \in Invs :
    /\ result[i] = "ok"
    /\ Cardinality(rows) = 2
    /\ \E r \in RowsOf(i) :
         /\ r.Id = 2 /\ r.BlobName = <<"a",".","E","D","I">> /\ r.BlobSize = 4096
         /\ r.ContentType = "application/edi" /\ r.Status = "Processed"

\* the connection string is unset or empty
ConnStrMissing == EnvKey \notin DOMAIN environ \/ environ[EnvKey] = ""

StoreUntouched ==
  /\ ~tableExists /\ rows = {} /\ identity = 1
  /\ \A i \in Invs : ~txCreate[i] /\ txRows[i] = {}

\* C3: when the connection string is missing (unset or empty), the
\* invocation fails with the configuration fault, it issues no store call of
\* any kind (connect, ensure, insert, count, close) and the audit store is
\* left unchanged.
C3_NoStoreCallWithoutConfig ==
  ConnStrMissing =>
    /\ StoreUntouched
    /\ \A i \in Invs :
         /\ calls[i] = <<>>
         /\ cn[i] = "unbound" /\ cur[i] = "unbound"
         /\ pc[i] \in {"start", "finally", "done"}
         /\ pc[i] # "start" => pending[i] = "config"
         /\ pc[i] = "done" => result[i] = "config"

\* C3 witness: with the connection string set to "", an invocation has raised
\* the configuration fault
C3_Witness ==
  /\ EnvKey \in DOMAIN environ /\ environ[EnvKey] = ""
  /\ \E i \in Invs : pc[i] = "done" /\ result[i] = "config" /\ calls[i] = <<>>

\* C4 as stated, read in the code's favour: an invocation that opened a
\* connection has, by the time it returns or raises, closed it or at least
\* called cn.close() on it, and likewise for its cursor (the claim asks for
\* more: that the connection is closed).
C4_ReleasedOnEveryPath ==
  \A i \in Invs : pc[i] = "done" =>
    /\ cn[i] # "unbound" => "cn.close" \in Range(calls[i])
    /\ cur[i] # "unbound" => "cur.close" \in Range(calls[i])

\* C5 as stated: a failure of a release step never propagates and never
\* replaces the original fault: when every step up to the count succeeded the
\* invocation completes normally, and when an earlier step faulted the caller
\* observes that fault.
C5_ReleaseFaultNeverPropagates ==
  \A i \in Invs : pc[i] = "done" =>
    /\ total_count[i] # -1 => result[i] = "ok"
    /\ pending[i] \notin {"none", "close_cur", "close_cn"} => result[i] = pending[i]

\* the store calls of one invocation before its release, in the order of the
\* specification: connect (with its cursor), ensure, its commit, insert, its
\* commit, count
MainSequence ==
  <<"connect", "cursor", "execute_ensure", "commit_ensure", "execute_insert",
    "commit_insert", "execute_count">>

IsPrefix(s, t) == Len(s) <= Len(t) /\ s = SubSeq(t, 1, Len(s))

NonRelease(s) == SelectSeq(s, IsNotRelease)
Release(s) == SelectSeq(s, IsRelease)

\* the call that raised the fault `step`, for the faults a call raises
FaultingCall(step) ==
  CASE step = "connect" -> "connect"
    [] step = "cursor" -> "cursor"
    [] step \in {"ensure", "create"} -> "execute_ensure"
    [] step = "ensure_commit" -> "commit_ensure"
    [] step = "insert" -> "execute_insert"
    [] step = "insert_commit" -> "commit_insert"
    [] step = "count" -> "execute_count"
    [] step = "close_cur" -> "cur.close"
    [] step = "close_cn" -> "cn.close"

\* the part of the sequence every reading of C6 shares: the calls before the
\* release are a prefix of the fixed sequence (in order, none twice), the
\* release calls come after all of them, a step that faults is the last one
\* before the release, the fault reaches the caller, a normal return means
\* the whole sequence ran, and the INSERT is issued only on a committed table
C6_Sequence(i) ==
  LET main == NonRelease(calls[i])
  IN /\ IsPrefix(main, MainSequence)
     /\ calls[i] = main \o Release(calls[i])
     /\ pending[i] # "none" => pc[i] \in {"finally", "done"}
     /\ pending[i] \notin {"none", "config", "close_cur", "close_cn"} =>
          main # <<>> /\ main[Len(main)] = FaultingCall(pending[i])
     /\ pending[i] = "config" => calls[i] = <<>>
     /\ pc[i] = "done" =>
          result[i] = (IF pending[i] = "none" THEN "ok" ELSE pending[i])
     /\ (pc[i] \in {"finally", "done"}
           /\ pending[i] \in {"none", "close_cur", "close_cn"}) =>
          main = MainSequence
     /\ "execute_insert" \in Range(main) => tableExists

Ran == {i \in Invs : pc[i] # "start"}

\* the dispatched invocations have all returned normally
AllReturned == Ran # {} /\ \A i \in Ran : result[i] = "ok"

DistinctPositiveIds ==
  /\ \A r \in rows : r.Id > 0
  /\ \A r1, r2 \in rows : r1.Id = r2.Id => r1 = r2

\* C8 as stated: starting from an empty store, after k fault-free invocations
\* (one after another or interleaved) the table holds exactly k rows with
\* pairwise distinct Ids greater than zero, and the count read by the last
\* invocation to finish equals k.  Read in the code's favour: only the runs
\* in which no statement read past uncommitted work are asked about.
C8_LastFinishedCountsAll ==
  (AllReturned /\ ~readPast) =>
    /\ Cardinality(rows) = Cardinality(Ran)
    /\ DistinctPositiveIds
    /\ total_count[lastDone] = Cardinality(Ran)

\* C8 amended: starting from an empty store, after k fault-free invocations
\* (one after another or interleaved) the table holds exactly k rows with
\* pairwise distinct Ids greater than zero, and the count read by the
\* invocation whose count ran last equals k; the count read by any of them,
\* the last to finish included, lies between 1 and k.
C8_LastCountCountsAll ==
  AllReturned =>
    /\ Cardinality(rows) = Cardinality(Ran)
    /\ DistinctPositiveIds
    /\ total_count[lastCount] = Cardinality(Ran)
    /\ \A i \in Ran : total_count[i] \in 1..Cardinality(Ran)

\* C8 witness: all invocations have returned normally, and the last to finish
\* is not the last that counted and read fewer rows than the table holds
C8_Witness ==
  /\ Ran = Invs
  /\ AllReturned
  /\ lastDone # lastCount
  /\ total_count[lastDone] < Cardinality(rows)
  /\ total_count[lastCount] = NInv

\* C9 as stated: when invocations run concurrently against a store without
\* the table, the ensure step of every one of them completes without a fault
\* of the store (CREATE TABLE never fails on an existing table), under every
\* interleaving of the existence checks and the create statements.  Read in
\* the code's favour: only the runs in which no existence check read past an
\* uncommitted CREATE TABLE are asked about.
C9_ConcurrentEnsureNeverFaults ==
  ~readPast => \A i \in Invs : pending[i] # "create"

\* the faults raised before the INSERT of the invocation is committed
FaultsBeforeCommit ==
  {"config", "connect", "cursor", "ensure", "create", "ensure_commit", "insert",
   "insert_commit"}

\* the faults raised after it: by the count and by the release of the try block
FaultsAfterCommit == {"count", "close_cur", "close_cn"}

\* C10 as stated: an invocation that reports a fault to its caller has added
\* no row to BlobAudit, whatever step faulted (config, connect, ensure,
\* insert, insert-commit, count, close).
C10_FaultMeansNoRow ==
  \A i \in Invs : (pc[i] = "done" /\ result[i] # "ok") => RowsOf(i) = {}

\* C10 amended: an invocation that reports a fault of config, connect, ensure,
\* insert or insert-commit has added no row to BlobAudit; an invocation that
\* reports a fault of the count or of the close calls of the try block has
\* added its one row, which stays committed, so that a host retry of that
\* invocation adds a second row for the same blob event.
C10_FaultBeforeCommitMeansNoRow ==
  \A i \in Invs : pc[i] = "done" =>
    /\ result[i] \in FaultsBeforeCommit => RowsOf(i) = {}
    /\ result[i] \in FaultsAfterCommit => Cardinality(RowsOf(i)) = 1
    /\ result[i] \in FaultsBeforeCommit \cup FaultsAfterCommit \cup {"ok"}

\* C10 witness: one invocation raised the fault of its count with its row
\* committed, another raised the fault of its insert commit with no row
C10_Witness ==
  \E i, j \in Invs :
    /\ pc[i] = "done" /\ result[i] = "count" /\ Cardinality(RowsOf(i)) = 1
    /\ pc[j] = "done" /\ result[j] = "insert_commit" /\ RowsOf(j) = {}

\* a step of the ensure of invocation i
EnsureStepOf(i) ==
  pc[i] \in {"ensure", "create", "ensure_commit"} /\ pc'[i] # pc[i]

C7_NoCreateFault ==
  \A i \in Invs :
    /\ pending[i] # "create"
    /\ pc[i] \in {"insert", "insert_commit", "count"} => tableExists

C7_EnsureStep ==
  /\ tableExists => tableExists'
  /\ \A i \in Invs : EnsureStepOf(i) =>
       /\ rows' = rows /\ identity' = identity
       /\ tableExists => (pc'[i] # "create" /\ ~txCreate'[i])

\* C7: ensure-table is idempotent: starting from a store without the table,
\* the ensure steps of N invocations run one after another never fail on the
\* existing table and leave the table in place once one of them has
\* committed; on a store that has the table, a step of the ensure creates
\* nothing and leaves the table and all of its rows as they are.
C7_EnsureIdempotent == [](C7_NoCreateFault) /\ [][C7_EnsureStep]_vars

\* C7 witness: an invocation has finished its ensure on a store that already
\* had the table and a row of an earlier invocation
C7_Witness ==
  \E i \in Invs :
    /\ pc[i] = "insert"
    /\ rows # {}
    /\ \E j \in Invs \ {i} : "commit_ensure" \in Range(calls[j]) /\ pc[j] = "done"

====
